---------------------------- MODULE Spec2Model ----------------------------
(***************************************************************************)
(* CDC event distribution core of the event-management system:             *)
(*   - the Registration Notification consumer (src/email_service.py)       *)
(*   - the Search Index Sync consumer (src/scripts/kafka_to_weaviate.py)   *)
(* together with the parts of the relational store, the change log and the *)
(* two sinks (SMTP, Weaviate) that their code touches.                     *)
(***************************************************************************)
EXTENDS Integers, Sequences, FiniteSets, TLC

(* ------------------------------ bounds -------------------------------- *)

\* Total number of messages the consumers pull from their topics in a run.
MaxDeliveries == 2

\* Registration rows (primary keys of event_registrations).
Regs == {1}

\* Notification consumer instances running under the same consumer group.
Instances == {"n1", "n2"}

(* ------------------------- program constants --------------------------- *)

\* connect_kafka: number of connection attempts, seconds between two of them.
max_retries == 10
retry_delay == 5

(* --------------------- registration change records -------------------- *)

\* JSON values the status / email_sent fields of a message can carry;
\* "MISSING" stands for a key that is not in the map, "null" for JSON null.
StatusVals == {"registered", "cancelled", "waitlisted", "MISSING"}
FlagVals == {"true", "false", "null", "MISSING"}

\* message.value of topic event_management.public.event_registrations after
\* the value_deserializer: a row map, None (kind "null") or {} (kind "empty").
RowMsg(r, s, e) == [kind |-> "row", id |-> r, status |-> s, email_sent |-> e]
NullMsg == [kind |-> "null", id |-> 0, status |-> "MISSING", email_sent |-> "MISSING"]
EmptyMsg == [kind |-> "empty", id |-> 0, status |-> "MISSING", email_sent |-> "MISSING"]
NoMsg == [kind |-> "none", id |-> 0, status |-> "MISSING", email_sent |-> "MISSING"]

\* A message whose bytes the value_deserializer cannot turn into a value
\* (not UTF-8, or not JSON), and a JSON value that is not a map (a number).
GarbledMsg == [kind |-> "garbled", id |-> 0, status |-> "MISSING", email_sent |-> "MISSING"]
ScalarMsg == [kind |-> "scalar", id |-> 0, status |-> "MISSING", email_sent |-> "MISSING"]

VARIABLES
    status,         \* store: event_registrations.status per row ("none" = no row)
    email_sent,     \* store: event_registrations.email_sent per row (the flag)
    email_sent_at,  \* store: number of times email_sent_at was (re)written
    topic,          \* row images published on the registration topic so far
    pc,             \* per instance: where its processing loop stands
    cur,            \* per instance: the message of the current/last delivery
    outcome,        \* per instance: terminal state of the last delivery
    eff,            \* per instance: effects of the current/last delivery
    redelivery,     \* per instance: the delivery repeats an already notified record
    notified,       \* records whose processing ended in a send and a flag write
    nSent,          \* per row: notifications the SMTP sink accepted
    run,            \* per instance: where the process stands between start and exit
    env,            \* per instance: SMTP_USER / SMTP_PASSWORD as main() read them
    attempt,        \* per instance: connect_kafka's loop variable
    slept,          \* per instance: seconds connect_kafka has slept
    consumer,       \* per instance: the subscription ("None", "open", "closed")
    deliveries,     \* messages pulled so far (by all consumers)
    ipc,            \* index consumer: where its loop stands
    icur,           \* index consumer: the message of the current/last delivery
    iposts,         \* index consumer: requests issued for the current/last delivery
    iattempts,      \* index consumer: connection attempts made
    irequest,       \* index consumer: properties of the last request it sent
    index,          \* Weaviate: the objects of class Event, in creation order
    fin,            \* the last call of a pure function: its name and argument
    fout,           \* ... and what it returned or raised
    pulled,         \* the messages taken so far where each is delivered once
    initializer     \* master_init: the EventManagementInitializer and its run

\* The process life cycle of the notification instances.
lvars == <<run, env, attempt, slept, consumer>>

nvars == <<status, email_sent, email_sent_at, topic, pc, cur, outcome, eff,
           redelivery, notified, nSent, lvars>>

ivars == <<ipc, icur, iposts, iattempts, irequest, index>>

\* Calls of the functions that keep no state.
pvars == <<fin, fout>>

vars == <<nvars, ivars, pvars, deliveries, pulled, initializer>>

(* ------------------------- relational store --------------------------- *)

\* The "after" row image the CDC connector publishes for row r.
Image(r, st, flag) == RowMsg(r, st, IF flag THEN "true" ELSE "false")

\* Messages on the topic that are not images of a row mutation modelled
\* here and never pass the gate: tombstones, empty maps, bytes that do not
\* decode, values that are not maps, rows with another status or without one.
OtherMessages ==
    {NullMsg, EmptyMsg, GarbledMsg, ScalarMsg}
    \cup {RowMsg(r, s, "false") : r \in Regs, s \in {"waitlisted", "MISSING"}}
    \cup {RowMsg(r, "MISSING", "true") : r \in Regs}

\* Registered rows whose email_sent is null or not in the map.
SparseRows == {RowMsg(r, "registered", e) : r \in Regs, e \in {"null", "MISSING"}}

\* What the broker may hand to a consumer, at-least-once and any number of
\* times: the images published so far and the messages of F.
Deliverable(F) == topic \cup F

\* RegistrationManager.register_for_event, new registration: INSERT with
\* status registered; email_sent is not set by the statement.
RegisterNew(r) ==
    /\ status[r] = "none"
    /\ status' = [status EXCEPT ![r] = "registered"]
    /\ topic' = topic \cup {Image(r, "registered", email_sent[r])}
    /\ UNCHANGED <<email_sent, email_sent_at, pc, cur, outcome, eff,
                   redelivery, notified, nSent, deliveries, ivars, pvars, pulled, initializer, lvars>>

\* Variant whose UPDATE also sets email_sent = FALSE.
Reactivate_ResetsFlag(r) ==
    /\ status[r] = "cancelled"
    /\ status' = [status EXCEPT ![r] = "registered"]
    /\ email_sent' = [email_sent EXCEPT ![r] = FALSE]
    /\ topic' = topic \cup {Image(r, "registered", FALSE)}
    /\ UNCHANGED <<email_sent_at, pc, cur, outcome, eff,
                   redelivery, notified, nSent, deliveries, ivars, pvars, pulled, initializer, lvars>>

\* RegistrationManager.register_for_event, existing cancelled row:
\* UPDATE ... SET status = registered, registration_date = now.
Reactivate(r) ==
    /\ status[r] = "cancelled"
    /\ status' = [status EXCEPT ![r] = "registered"]
    /\ topic' = topic \cup {Image(r, "registered", email_sent[r])}
    /\ UNCHANGED <<email_sent, email_sent_at, pc, cur, outcome, eff,
                   redelivery, notified, nSent, deliveries, ivars, pvars, pulled, initializer, lvars>>

\* Variant whose UPDATE also sets email_sent = FALSE.
CancelRegistration_ClearsFlag(r) ==
    /\ status[r] = "registered"
    /\ status' = [status EXCEPT ![r] = "cancelled"]
    /\ email_sent' = [email_sent EXCEPT ![r] = FALSE]
    /\ topic' = topic \cup {Image(r, "cancelled", FALSE)}
    /\ UNCHANGED <<email_sent_at, pc, cur, outcome, eff,
                   redelivery, notified, nSent, deliveries, ivars, pvars, pulled, initializer, lvars>>

\* RegistrationManager.cancel_registration:
\* UPDATE ... SET status = cancelled WHERE ... AND status = registered.
CancelRegistration(r) ==
    /\ status[r] = "registered"
    /\ status' = [status EXCEPT ![r] = "cancelled"]
    /\ topic' = topic \cup {Image(r, "cancelled", email_sent[r])}
    /\ UNCHANGED <<email_sent, email_sent_at, pc, cur, outcome, eff,
                   redelivery, notified, nSent, deliveries, ivars, pvars, pulled, initializer, lvars>>

(* --------------------- notification consumer -------------------------- *)

\* Effects of one delivery: read-model fetches and the last fetch result,
\* send attempts, sends the sink accepted, calls of mark_email_sent and the
\* calls among them that returned True.
NoEffects == [fetches |-> 0, fetched |-> "none", sends |-> 0, sent |-> 0,
              writes |-> 0, written |-> 0]

\* Python truthiness of the decoded email_sent value:
\* after_data.get('email_sent', False).
Truthy(e) == e = "true"

\* after_data.get('status', '')
DecodedStatus(m) == IF m.status = "MISSING" THEN "" ELSE m.status

\* value_deserializer=lambda x: json.loads(x.decode('utf-8')) if x else None
\* returns a value for the bytes of m, or raises.
Decodes(m) == m.kind # "garbled"

\* `if message.value:` / `if not after_data:`  (None and {} are falsy)
HasPayload(m) == m.kind \in {"row", "scalar"}

\* The record is actionable: status registered and email_sent not set.
Actionable(m) ==
    HasPayload(m) /\ DecodedStatus(m) = "registered" /\ ~Truthy(m.email_sent)

\* Variant of the gate that looks at the status only.
Gate_StatusOnly(m) ==
    IF DecodedStatus(m) # "registered" THEN "FilteredOut" ELSE "Fetching"

\* Variant that builds the email from a row it has kept.
Gate_Cached(m) ==
    IF DecodedStatus(m) # "registered" \/ Truthy(m.email_sent)
    THEN "FilteredOut" ELSE "Sending"

\* Variant that also looks up the row's flag in the store.
Gate_ReadsStore(m) ==
    IF DecodedStatus(m) # "registered" \/ Truthy(m.email_sent)
          \/ (m.id \in Regs /\ email_sent[m.id])
    THEN "FilteredOut" ELSE "Fetching"

\* `if status != 'registered' or email_sent: return`
Gate(m) ==
    IF DecodedStatus(m) # "registered" \/ Truthy(m.email_sent)
    THEN "FilteredOut" ELSE "Fetching"

\* The entry of process_registration_event up to the gate; a value that is
\* not a map has no .get, which raises AttributeError.
Receive(m) ==
    CASE ~HasPayload(m) -> "NoOp"
      [] m.kind = "scalar" -> "Error"
      [] OTHER -> Gate(m)

\* Variant without the `except Exception` clauses.
ExceptException_Nothing(exc) == FALSE

\* `except Exception as e:` catches every exception of the handler but the
\* ones that derive from BaseException only.
ExceptException(exc) == exc # "KeyboardInterrupt"

\* run(): where the process stands after exception exc.  Raised in the body
\* of the loop it meets the `except Exception` of process_registration_event
\* and of the loop; raised by the iteration of the consumer, or not caught
\* there, it meets `except KeyboardInterrupt` only, and leaves run().
AfterException(exc, inBody) ==
    IF inBody /\ ExceptException(exc) THEN "Streaming"
    ELSE IF exc = "KeyboardInterrupt" THEN "Closed" ELSE "Crashed"

\* The loop of instance i goes on (r = "Streaming") or run() is left through
\* `finally: consumer.close()`.
Leave(i, r) ==
    /\ run' = [run EXCEPT ![i] = r]
    /\ consumer' = [consumer EXCEPT ![i] = IF r = "Streaming" THEN @ ELSE "closed"]

\* The outcomes a delivery can end with; any other value an After... step
\* yields is the place where the handler goes on.
Terminal == {"NoOp", "FilteredOut", "FetchFailed", "SendFailed", "Sent", "Error"}

\* Variant that takes the next message while the handler is still running.
CanPull_Always(i) == run[i] = "Streaming"

\* `for message in consumer:` asks for the next message when the body of the
\* loop has returned.
CanPull(i) == run[i] = "Streaming" /\ pc[i] = "Idle"

\* `for message in consumer:` hands the next message to the loop body, which
\* runs process_registration_event up to the read-model fetch.  The
\* deserializer runs inside the iteration, outside the loop's try.
Take(i, m) ==
    /\ CanPull(i)
    /\ deliveries < MaxDeliveries
    /\ deliveries' = deliveries + 1
    /\ cur' = [cur EXCEPT ![i] = m]
    /\ eff' = [eff EXCEPT ![i] = NoEffects]
    /\ redelivery' = [redelivery EXCEPT
                        ![i] = m \in notified /\ m.id \in Regs /\ email_sent[m.id]]
    /\ IF ~Decodes(m)
       THEN /\ pc' = pc
            /\ outcome' = [outcome EXCEPT ![i] = "Unread"]
            /\ Leave(i, AfterException("ValueError", FALSE))
       ELSE IF Receive(m) \notin Terminal
       THEN /\ pc' = [pc EXCEPT ![i] = Receive(m)]
            /\ outcome' = [outcome EXCEPT ![i] = "InFlight"]
            /\ Leave(i, "Streaming")
       ELSE /\ pc' = [pc EXCEPT ![i] = "Idle"]
            /\ outcome' = [outcome EXCEPT ![i] = Receive(m)]
            /\ Leave(i, IF Receive(m) = "Error"
                        THEN AfterException("AttributeError", TRUE)
                        ELSE "Streaming")
    /\ UNCHANGED <<status, email_sent, email_sent_at, topic, notified, nSent,
                   ivars, pvars, initializer, env, attempt, slept>>

\* At-least-once delivery: the broker may hand over any message, any number
\* of times.
Pull(i, m) == Take(i, m) /\ UNCHANGED pulled

\* Delivery of each message exactly once (no rebalance, no restart before
\* the offset is committed).
PullOnce(i, m) ==
    /\ m \notin pulled
    /\ Take(i, m)
    /\ pulled' = pulled \cup {m}


\* What get_registration_details can return for the record: the view row, or
\* None when there is no row or the query fails; "incomplete" is a row that
\* lacks a column the email needs.
FetchResults(m) ==
    IF m.id \in Regs /\ status[m.id] # "none"
    THEN {"row", "incomplete", "absent"} ELSE {"absent"}

\* Variant that goes on to the send when the fetch returned nothing.
AfterFetch_NoCheck(res) == IF res = "incomplete" THEN "Error" ELSE "Sending"

\* `if not registration_details: return`, then building event_details; a
\* missing column raises KeyError, caught by the handler's except clause.
AfterFetch(res) ==
    CASE res = "absent" -> "FetchFailed"
      [] res = "incomplete" -> "Error"
      [] OTHER -> "Sending"

Fetch(i, res) ==
    /\ run[i] = "Streaming"
    /\ pc[i] = "Fetching"
    /\ res \in FetchResults(cur[i])
    /\ eff' = [eff EXCEPT ![i].fetches = @ + 1, ![i].fetched = res]
    /\ IF AfterFetch(res) \notin Terminal
       THEN /\ pc' = [pc EXCEPT ![i] = AfterFetch(res)]
            /\ outcome' = outcome
       ELSE /\ pc' = [pc EXCEPT ![i] = "Idle"]
            /\ outcome' = [outcome EXCEPT ![i] = AfterFetch(res)]
    /\ Leave(i, IF AfterFetch(res) = "Error"
                THEN AfterException("KeyError", TRUE)
                ELSE "Streaming")
    /\ UNCHANGED <<status, email_sent, email_sent_at, topic, cur, redelivery,
                   notified, nSent, deliveries, ivars, pvars, pulled, initializer, env, attempt, slept>>

\* Variant that marks the row whatever the send returned.
AfterSend_AlwaysMark(ok) == "Marking"

\* Variant with the branches of the send result swapped.
AfterSend_Swapped(ok) == IF ok THEN "SendFailed" ELSE "Marking"

\* Variant that sends again when the send returned False.
AfterSend_Retry(ok) == IF ok THEN "Marking" ELSE "Sending"

\* `if self.email_service.send_registration_confirmation(...):` mark, else log.
AfterSend(ok) == IF ok THEN "Marking" ELSE "SendFailed"

\* EmailService.send_registration_confirmation: True when the SMTP server took
\* the message, False on any exception.
Send(i, ok) ==
    /\ run[i] = "Streaming"
    /\ pc[i] = "Sending"
    /\ eff' = [eff EXCEPT ![i].sends = @ + 1,
                          ![i].sent = @ + (IF ok THEN 1 ELSE 0)]
    /\ nSent' = [nSent EXCEPT ![cur[i].id] = @ + (IF ok THEN 1 ELSE 0)]
    /\ IF AfterSend(ok) \notin Terminal
       THEN /\ pc' = [pc EXCEPT ![i] = AfterSend(ok)]
            /\ outcome' = outcome
       ELSE /\ pc' = [pc EXCEPT ![i] = "Idle"]
            /\ outcome' = [outcome EXCEPT ![i] = AfterSend(ok)]
    /\ UNCHANGED <<status, email_sent, email_sent_at, topic, cur, redelivery,
                   notified, deliveries, ivars, pvars, pulled, initializer, lvars>>

\* The rows the UPDATE of mark_email_sent changes: WHERE id = %s.
MarkTargets(r) == {x \in Regs : x = r /\ status[x] # "none"}

\* DatabaseService.mark_email_sent, called after a successful send; dbOk is
\* FALSE when the connection or the statement fails (logged, returns False).
Mark(i, dbOk) ==
    /\ run[i] = "Streaming"
    /\ pc[i] = "Marking"
    /\ eff' = [eff EXCEPT ![i].writes = @ + 1,
                          ![i].written = @ + (IF dbOk THEN 1 ELSE 0)]
    /\ IF dbOk
       THEN LET T == MarkTargets(cur[i].id) IN
            /\ email_sent' = [r \in Regs |-> IF r \in T THEN TRUE ELSE email_sent[r]]
            /\ email_sent_at' = [r \in Regs |->
                                   IF r \in T THEN email_sent_at[r] + 1
                                   ELSE email_sent_at[r]]
            /\ topic' = topic \cup {Image(r, status[r], TRUE) : r \in T}
            /\ notified' = notified \cup {cur[i]}
       ELSE UNCHANGED <<email_sent, email_sent_at, topic, notified>>
    /\ pc' = [pc EXCEPT ![i] = "Idle"]
    /\ outcome' = [outcome EXCEPT ![i] = "Sent"]
    /\ UNCHANGED <<status, cur, redelivery, nSent, deliveries, ivars, pvars, pulled, initializer, lvars>>

(* ------------- notification process: start, connect, stop ------------- *)

\* What os.getenv can return for a variable: None ("MISSING"), '' or a value.
EnvVals == {"MISSING", "", "set"}

NoEnv == [SMTP_USER |-> "UNREAD", SMTP_PASSWORD |-> "UNREAD"]

\* Variant that only looks for a variable that is not set at all.
Missing_NoneOnly(val) == val = "MISSING"

\* `not os.getenv(var)`: the variable is not set or is empty.
Missing(val) == val \in {"MISSING", ""}

\* missing_vars = [var for var in required_env_vars if not os.getenv(var)]
MissingVars(e) == {var \in {"SMTP_USER", "SMTP_PASSWORD"} : Missing(e[var])}

\* main(): with a required variable missing it logs and returns; otherwise
\* it constructs RegistrationEmailConsumer and calls run(), which starts
\* with connect_kafka().
Main(i, user, password) ==
    LET e == [SMTP_USER |-> user, SMTP_PASSWORD |-> password] IN
    /\ run[i] = "Start"
    /\ env' = [env EXCEPT ![i] = e]
    /\ run' = [run EXCEPT ![i] = IF MissingVars(e) # {} THEN "Aborted"
                                 ELSE "Connecting"]
    /\ UNCHANGED <<status, email_sent, email_sent_at, topic, pc, cur, outcome,
                   eff, redelivery, notified, nSent, deliveries, ivars, pvars, pulled, initializer,
                   attempt, slept, consumer>>

\* Variant that also waits and goes on after the last attempt.
RetryAfter_Always(a) == a < max_retries

\* `if attempt < max_retries - 1: time.sleep(retry_delay)  else: raise`
RetryAfter(a) == a < max_retries - 1

\* One turn of `for attempt in range(max_retries)` in connect_kafka: the
\* KafkaConsumer is constructed (the consumer is returned and the locals
\* are gone), or the constructor raises NoBrokersAvailable (sleep and go on,
\* or re-raise on the last turn: "StartupFailed"), or it raises something
\* else, which nothing catches ("StartupError").  A loop that ran out would
\* return None, on which run()'s `for` raises TypeError.
ConnectAttempt(i, res) ==
    /\ run[i] = "Connecting"
    /\ attempt[i] < max_retries
    /\ CASE res = "ok" ->
              /\ consumer' = [consumer EXCEPT ![i] = "open"]
              /\ run' = [run EXCEPT ![i] = "Streaming"]
              /\ attempt' = [attempt EXCEPT ![i] = 0]
              /\ slept' = [slept EXCEPT ![i] = 0]
         [] res = "NoBrokersAvailable" /\ RetryAfter(attempt[i]) ->
              /\ slept' = [slept EXCEPT ![i] = @ + retry_delay]
              /\ attempt' = [attempt EXCEPT ![i] = @ + 1]
              /\ run' = [run EXCEPT ![i] = IF attempt[i] + 1 < max_retries
                                           THEN "Connecting" ELSE "Crashed"]
              /\ consumer' = consumer
         [] res = "NoBrokersAvailable" /\ ~RetryAfter(attempt[i]) ->
              /\ run' = [run EXCEPT ![i] = "StartupFailed"]
              /\ UNCHANGED <<attempt, slept, consumer>>
         [] OTHER ->
              /\ run' = [run EXCEPT ![i] = "StartupError"]
              /\ UNCHANGED <<attempt, slept, consumer>>
    /\ UNCHANGED <<status, email_sent, email_sent_at, topic, pc, cur, outcome,
                   eff, redelivery, notified, nSent, deliveries, ivars, pvars, pulled, initializer, env>>

\* SIGINT: KeyboardInterrupt is raised where the main thread stands.  In
\* run()'s try it is caught by `except KeyboardInterrupt` (no `except
\* Exception` on the way catches it) and the consumer is closed; a handler
\* that was running stays where it was.  In connect_kafka it ends the
\* process, and the locals of connect_kafka with it.
Interrupt(i) ==
    /\ run[i] \in {"Connecting", "Streaming"}
    /\ IF run[i] = "Streaming"
       THEN /\ Leave(i, AfterException("KeyboardInterrupt", pc[i] # "Idle"))
            /\ outcome' = [outcome EXCEPT ![i] = IF pc[i] # "Idle" THEN "Aborted" ELSE @]
            /\ UNCHANGED <<attempt, slept>>
       ELSE /\ run' = [run EXCEPT ![i] = "Killed"]
            /\ attempt' = [attempt EXCEPT ![i] = 0]
            /\ slept' = [slept EXCEPT ![i] = 0]
            /\ UNCHANGED <<consumer, outcome>>
    /\ UNCHANGED <<status, email_sent, email_sent_at, topic, pc, cur, eff,
                   redelivery, notified, nSent, deliveries, ivars, pvars, pulled, initializer, env>>

(* ----------------------- JSON values and maps -------------------------- *)

\* A JSON value as the deserializer yields it, tagged with its Python type.
JInt(n) == [t |-> "int", v |-> n]
JStr(x) == [t |-> "str", v |-> x]
JNull == [t |-> "null", v |-> 0]
JBool(b) == [t |-> "bool", v |-> b]
JMap(p) == [t |-> "map", v |-> p]
Absent == [t |-> "absent", v |-> 0]

\* The milliseconds of a day.
DayMs == 24 * 3600 * 1000

\* A Python int beyond 32 bits, kept as its floor quotient and its remainder
\* by the milliseconds of a day: the integer days * DayMs + ms.
JWide(days, ms) == [t |-> "wide", v |-> [days |-> days, ms |-> ms]]

\* Values of the read model's DATE and TIME columns (datetime.date and
\* datetime.time objects), named by the text str() gives for them.
JDate(x) == [t |-> "date", v |-> x]
JTime(x) == [t |-> "time", v |-> x]

EmptyMap == [k \in {} |-> JNull]

\* dict.pop(k, None): the map without key k.
Pop(d, k) == [x \in DOMAIN d \ {k} |-> d[x]]

\* d[k] = val
Put(d, k, val) == [x \in DOMAIN d \cup {k} |-> IF x = k THEN val ELSE d[x]]

\* d.get(k) / d.pop(k, None): the value under k, None when k is not in d.
GetOrNone(d, k) == IF k \in DOMAIN d THEN d[k] ELSE JNull

\* Python truthiness of a JSON value.
PyTruthy(val) ==
    CASE val.t = "int" -> val.v # 0
      [] val.t = "str" -> val.v # ""
      [] val.t = "bool" -> val.v
      [] val.t = "map" -> DOMAIN val.v # {}
      [] val.t = "wide" -> val.v.days # 0 \/ val.v.ms # 0
      [] val.t \in {"date", "time"} -> TRUE
      [] OTHER -> FALSE

\* isinstance(x, int)   (bool is a subclass of int in Python)
IsInt(val) == val.t \in {"int", "bool", "wide"}

\* The integer a Python int or bool of at most 32 bits counts as.
IntOf(val) == IF val.t = "bool" THEN (IF val.v THEN 1 ELSE 0) ELSE val.v

\* A Python int or bool as floor quotient and remainder by DayMs.
WideOf(val) ==
    IF val.t = "wide" THEN val.v
    ELSE [days |-> IntOf(val) \div DayMs, ms |-> IntOf(val) % DayMs]

(* ------------------------ temporal converter -------------------------- *)

\* f"{n:02d}"
Pad2(n) == IF n >= 0 /\ n < 10 THEN "0" \o ToString(n) ELSE ToString(n)

\* strftime('%Y') as the C library of the Linux containers renders it: the
\* year in decimal, not padded when it is below 1000.
FormatYear(n) == ToString(n)

\* The proleptic Gregorian date that lies `days` days after 1970-01-01, as
\* datetime(1970, 1, 1) + timedelta(days=days) computes it.
CivilFromDays(days) ==
    LET z == days + 719468
        era == z \div 146097
        doe == z - era * 146097
        yoe == (doe - doe \div 1460 + doe \div 36524 - doe \div 146096) \div 365
        doy == doe - (365 * yoe + yoe \div 4 - yoe \div 100)
        mp == (5 * doy + 2) \div 153
        dd == doy - (153 * mp + 2) \div 5 + 1
        mm == IF mp < 10 THEN mp + 3 ELSE mp - 9
        yy == yoe + era * 400 + (IF mm <= 2 THEN 1 ELSE 0)
    IN  [year |-> yy, month |-> mm, day |-> dd]

\* datetime holds the years 1..9999; a result outside raises OverflowError.
DateInRange(days) == CivilFromDays(days).year \in 1..9999

\* strftime('%Y-%m-%d')
FormatDate(c) == FormatYear(c.year) \o "-" \o Pad2(c.month) \o "-" \o Pad2(c.day)

\* The offset of the process's local time from UTC, in seconds (the
\* containers run with UTC).
LocalOffset == 0 * 3600

\* The local day (counted from 1970-01-01) and second of the day of the
\* instant w milliseconds after the epoch; the division by 1000 and
\* fromtimestamp's rounding to microseconds leave the whole second alone.
LocalSecond(w) ==
    LET secs == w.ms \div 1000 + LocalOffset
    IN  [day |-> w.days + secs \div 86400, tod |-> secs % 86400]

\* datetime.fromtimestamp(ms / 1000).strftime('%Y-%m-%d %H:%M:%S')
FormatTimestamp(w) ==
    LET tod == LocalSecond(w).tod
    IN  FormatDate(CivilFromDays(LocalSecond(w).day)) \o " " \o Pad2(tod \div 3600)
        \o ":" \o Pad2((tod % 3600) \div 60) \o ":" \o Pad2(tod % 60)

\* fromtimestamp raises ValueError (year out of range) outside 1..9999; it
\* also takes the local time a day earlier (to find a repeated hour), which
\* raises in the same way.
TimestampInRange(w) ==
    DateInRange(LocalSecond(w).day) /\ DateInRange(LocalSecond(w).day - 1)

\* event_date: days since the epoch rendered as YYYY-MM-DD.
ConvertEventDate(d) ==
    IF "event_date" \in DOMAIN d /\ IsInt(d["event_date"])
           /\ d["event_date"].t # "wide"
    THEN Put(d, "event_date", JStr(FormatDate(CivilFromDays(IntOf(d["event_date"])))))
    ELSE d

\* f"{hours:02d}:{minutes:02d}:{seconds:02d}"
FormatTime(hours, minutes, seconds) ==
    Pad2(hours) \o ":" \o Pad2(minutes) \o ":" \o Pad2(seconds)

\* Variant that takes the minutes of the whole value, not of the hour.
ConvertEventTime_MinutesOfDay(d) ==
    IF "event_time" \in DOMAIN d /\ IsInt(d["event_time"])
           /\ d["event_time"].t # "wide"
    THEN LET total_seconds == IntOf(d["event_time"]) \div 1000
         IN  Put(d, "event_time",
                 JStr(FormatTime(total_seconds \div 3600, total_seconds \div 60,
                                 total_seconds % 60)))
    ELSE d

\* event_time: milliseconds since midnight rendered as HH:MM:SS.  For an
\* integer beyond 32 bits the same quotients are taken from its two parts
\* (a day has a whole number of hours).
ConvertEventTime(d) ==
    IF "event_time" \in DOMAIN d /\ IsInt(d["event_time"])
    THEN IF d["event_time"].t = "wide"
         THEN LET w == d["event_time"].v
                  day_seconds == w.ms \div 1000
              IN  Put(d, "event_time",
                      JStr(FormatTime(w.days * 24 + day_seconds \div 3600,
                                      (day_seconds % 3600) \div 60,
                                      day_seconds % 60)))
         ELSE LET total_seconds == IntOf(d["event_time"]) \div 1000
                  hours == total_seconds \div 3600
                  minutes == (total_seconds % 3600) \div 60
                  seconds == total_seconds % 60
              IN  Put(d, "event_time",
                      JStr(FormatTime(hours, minutes, seconds)))
    ELSE d

\* created_at / updated_at: milliseconds since the epoch.
ConvertTimestamp(d, field) ==
    IF field \in DOMAIN d /\ IsInt(d[field])
    THEN Put(d, field, JStr(FormatTimestamp(WideOf(d[field]))))
    ELSE d

\* convert_dates raises (nothing in it catches) when a date or a timestamp
\* falls outside the range of datetime; timedelta(days=...) raises on every
\* integer beyond 32 bits.
ConvertRaises(d) ==
    \/ "event_date" \in DOMAIN d /\ IsInt(d["event_date"])
         /\ (d["event_date"].t = "wide" \/ ~DateInRange(IntOf(d["event_date"])))
    \/ \E field \in {"created_at", "updated_at"} :
         field \in DOMAIN d /\ IsInt(d[field]) /\ ~TimestampInRange(WideOf(d[field]))

\* convert_dates on a payload it does not raise on.
ConvertDates(d) ==
    ConvertTimestamp(ConvertTimestamp(ConvertEventTime(ConvertEventDate(d)),
                                      "created_at"), "updated_at")

(* ------------------------ index sync consumer ------------------------- *)

\* An event row image with the given fields; Absent leaves the key out.
EventRow(id, title, event_date, event_time) ==
    LET f == [id |-> id, title |-> title,
              event_date |-> event_date, event_time |-> event_time]
    IN  [k \in {x \in DOMAIN f : f[x] # Absent} |-> f[k]]

\* "After" row images of the events table: two versions of event 1, a row
\* whose id is 0, a row without an id, a row whose date lies beyond the year
\* 9999, a row with temporal fields that are not integers, and a row with a
\* field named postgres_id.
EventPayloads ==
    {EventRow(JInt(1), JStr("a"), JInt(20000), JInt(34200000)),
     EventRow(JInt(1), JStr("b"), JInt(20000), JInt(34200000)),
     EventRow(JInt(0), JStr("a"), Absent, Absent),
     EventRow(Absent, JStr("a"), Absent, Absent),
     EventRow(JInt(2), JStr("a"), JInt(2932897), JInt(34200000)),
     EventRow(JInt(3), JStr("a"), JBool(TRUE), JStr("09:30:00")),
     Put(EventRow(JInt(4), JStr("a"), JNull, Absent), "postgres_id", JInt(7))}

\* message.value of topic postgres.public.events: a change envelope whose
\* 'after' is absent, null, {} or a row image; or the JSON value null.
Envelope(a) == [kind |-> "envelope", after |-> a]
NullValue == [kind |-> "null", after |-> Absent]
NoEnvelope == [kind |-> "none", after |-> Absent]

\* Bytes the value_deserializer raises on, and a JSON number.
GarbledValue == [kind |-> "garbled", after |-> Absent]
ScalarValue == [kind |-> "scalar", after |-> Absent]

IndexMessages ==
    {NullValue, GarbledValue, ScalarValue}
    \cup {Envelope(a) : a \in {Absent, JNull, JMap(EmptyMap)}}
    \cup {Envelope(JMap(p)) : p \in EventPayloads}

\* Variant that tests `event['after'] is not None` instead of its truth value.
HasAfter_NotNone(e) == e.after # Absent /\ e.after # JNull

\* `if 'after' in event and event['after']:`
HasAfter(e) == e.after # Absent /\ PyTruthy(e.after)

\* Variant that builds the properties from the fields it knows.
BuildProperties_Whitelist(payload) ==
    LET event_data == ConvertDates(payload)
        known == {"event_date", "event_time", "created_at", "updated_at"}
    IN  IF PyTruthy(GetOrNone(event_data, "id"))
        THEN Put([k \in DOMAIN event_data \cap known |-> event_data[k]],
                 "postgres_id", event_data["id"])
        ELSE [k \in DOMAIN event_data \cap known |-> event_data[k]]

\* send_to_weaviate up to the request: the properties of the object.
\*   postgres_id = event_data.pop('id', None)
\*   if postgres_id: event_data['postgres_id'] = postgres_id
BuildProperties(payload) ==
    LET event_data == ConvertDates(payload)
        postgres_id == GetOrNone(event_data, "id")
        popped == Pop(event_data, "id")
    IN  IF PyTruthy(postgres_id) THEN Put(popped, "postgres_id", postgres_id)
        ELSE popped

\* POST /v1/objects with body {"class": "Event", "properties": ...}: the body
\* names no object id, so an accepted request creates one more object.
WeaviateCreate(objects, properties) == Append(objects, properties)

\* main() up to the loop: one KafkaConsumer(...) in a try; on an exception
\* it logs and returns.
IConnect(ok) ==
    /\ ipc = "Start"
    /\ iattempts' = iattempts + 1
    /\ ipc' = IF ok THEN "Idle" ELSE "Returned"
    /\ UNCHANGED <<icur, iposts, irequest, index, deliveries, nvars, pvars, pulled, initializer>>

\* The exit status of the script: main() returned, or an exception nothing
\* caught ended it with a traceback.
ExitStatus(p) == IF p = "Crashed" THEN 1 ELSE 0

\* `for message in consumer:` up to the request of send_to_weaviate.  Bytes
\* the value_deserializer raises on end the iteration with that exception;
\* a value that is JSON null or a number makes `'after' in event` raise
\* TypeError, and a payload convert_dates raises on ends send_to_weaviate
\* with that exception; nothing catches any of them, so the loop ends.
IPull(e) ==
    /\ ipc = "Idle"
    /\ deliveries < MaxDeliveries
    /\ deliveries' = deliveries + 1
    /\ icur' = e
    /\ iposts' = 0
    /\ ipc' = CASE e.kind \in {"garbled", "null", "scalar"} -> "Crashed"
                [] HasAfter(e) /\ ConvertRaises(e.after.v) -> "Crashed"
                [] HasAfter(e) -> "Posting"
                [] OTHER -> "Idle"
    /\ UNCHANGED <<iattempts, irequest, index, nvars, pvars, pulled, initializer>>

\* requests.post(WEAVIATE_URL, json=obj): the server creates the object,
\* answers with an error status, or the call raises; all three are logged.
IPost(resp) ==
    /\ ipc = "Posting"
    /\ iposts' = iposts + 1
    /\ irequest' = BuildProperties(icur.after.v)
    /\ index' = IF resp = "created"
                THEN WeaviateCreate(index, irequest')
                ELSE index
    /\ ipc' = "Idle"
    /\ UNCHANGED <<icur, iattempts, deliveries, nvars, pvars, pulled, initializer>>

(* ------------------------- confirmation email ------------------------- *)

\* str(x) of a date or a time of the read model.
PyStr(val) == val.v

\* The event_details process_registration_event hands to the email service:
\*   'event_date': str(row['event_date']) if row['event_date'] else 'TBD'
\* and the same for event_time.
EventDetails(row) ==
    [event_date |-> IF PyTruthy(row.event_date) THEN PyStr(row.event_date) ELSE "TBD",
     event_time |-> IF PyTruthy(row.event_time) THEN PyStr(row.event_time) ELSE "TBD"]

\* _create_email_template: the text after "Date & Time:".
FormattedDateTime(event_details) ==
    IF event_details.event_date # "TBD" /\ event_details.event_time # "TBD"
    THEN event_details.event_date \o " at " \o event_details.event_time
    ELSE IF event_details.event_date # "TBD"
    THEN event_details.event_date
    ELSE "Date and time to be announced"

\* Variant that greets with the username whenever there is one.
DisplayName_UsernameFirst(row) ==
    IF PyTruthy(row.username) THEN row.username ELSE row.full_name

\* user_name = row['full_name'] or row['username']
DisplayName(row) ==
    IF PyTruthy(row.full_name) THEN row.full_name ELSE row.username

\* The message send_registration_confirmation builds for a fetched row:
\* msg['To'], the name after "Hello" and the date and time line.
Email(row) ==
    [to |-> row.email, name |-> DisplayName(row),
     when |-> FormattedDateTime(EventDetails(row))]

\* Rows of the view registration_details: full_name is NULL, empty or a name;
\* the event's date and time are NULL or set.
DetailRows ==
    [email : {JStr("ann@example.org")},
     full_name : {JNull, JStr(""), JStr("Ann Lee")},
     username : {JStr("ann")},
     event_date : {JNull, JDate("2024-10-04")},
     event_time : {JNull, JTime("09:30:00"), JTime("00:00:00")}]

(* ------------------------ calls of pure functions --------------------- *)

NoCall == [f |-> "none", arg |-> EmptyMap]
NoResult == [raised |-> FALSE, value |-> EmptyMap]

\* How many multiples of TimeStride, and of DateStride, the converter is
\* called with.
TimeSamples == 60
TimeStride == 1439999
DateSamples == 40
DateStride == 73331

\* event_time values: the multiples of TimeStride over a day and beyond it
\* on both sides, the ends of a second, a minute, an hour and the day, and
\* values that are not int.
TimeValues ==
    {JInt(k * TimeStride) : k \in -2 .. TimeSamples}
    \cup {JInt(n) : n \in {0, 1, 999, 1000, 59999, 60000, 3599999, 3600000,
                          34200000, 86399999, 86400000, -1, -1000}}
    \cup {JBool(TRUE), JStr("09:30:00"), JNull, JWide(24855, 3600000)}

\* event_date values: the multiples of DateStride from before the year 1 to
\* after the year 9999, leap days and the days around them, the first and
\* the last day datetime holds and their neighbours.
DateValues ==
    {JInt(k * DateStride) : k \in -10 .. DateSamples}
    \cup {JInt(n) : n \in {0, 1, -1, 58, 59, 789, 790, 11016, 11017, 20000,
                          47540, 47541, 2932896, 2932897, -719162, -719163}}
    \cup {JBool(FALSE), JStr("2024-10-04"), JNull}

\* created_at / updated_at values, some of them beyond 32 bits: instants of
\* 1970, of 2023, the last second of 9999 and the first of 10000, the first
\* of the second day of the year 1 and the one before it.
TimestampValues ==
    {JInt(n) : n \in {0, 999, 1000, -1, 86399999, 86400000}}
    \cup {JWide(19675, 34200123), JWide(2932896, 86399999), JWide(2932897, 0),
          JWide(-719161, 0), JWide(-719162, 86399999)}
    \cup {JStr("2023-11-14T09:30:00Z")}

\* Row images convert_dates is called with.
ConvertInputs ==
    {[event_time |-> v] : v \in TimeValues}
    \cup {[event_date |-> v] : v \in DateValues}
    \cup {[created_at |-> a, updated_at |-> b] : a, b \in TimestampValues}
    \cup {[event_date |-> JInt(2932897), event_time |-> JInt(34200000)]}

\* A call of convert_dates(event_data).
ConvertCall(p) ==
    /\ fin' = [f |-> "convert_dates", arg |-> p]
    /\ fout' = IF ConvertRaises(p) THEN [raised |-> TRUE, value |-> EmptyMap]
               ELSE [raised |-> FALSE, value |-> ConvertDates(p)]
    /\ UNCHANGED <<nvars, ivars, deliveries, pulled, initializer>>

\* The message process_registration_event has sent for a fetched row.
BuildEmail(row) ==
    /\ fin' = [f |-> "email", arg |-> row]
    /\ fout' = [raised |-> FALSE, value |-> Email(row)]
    /\ UNCHANGED <<nvars, ivars, deliveries, pulled, initializer>>

(* ------------------------ master initialization ----------------------- *)

\* wait_for_service(self, service_name, check_function, max_retries=30, delay=5)
wait_max_retries == 30
delay == 5

\* core_services of run_initialization, in its order.
core_services == <<"postgres", "weaviate", "debezium">>

\* The setup steps of run_initialization after the waits, in its order.
StepOrder == <<"database_schema", "weaviate_schema", "connectors", "health">>

\* EventManagementInitializer() before run_initialization: services_ready as
\* __init__ sets it; service is the index in core_services of the service
\* waited for, attempt and slept the checks made and the seconds slept in
\* the current wait_for_service, steps the setup steps started, failed those
\* that returned False, exit the status given to sys.exit.
NewInitializer ==
    [services_ready |-> [x \in {"postgres", "kafka", "weaviate", "debezium"} |-> FALSE],
     pc |-> "Start", service |-> 0, attempt |-> 0, slept |-> 0,
     steps |-> <<>>, failed |-> {}, exit |-> -1]

\* What check_postgres, check_weaviate and check_debezium can give: each
\* wraps its probe in try / bare except and returns False from the except,
\* so none of them raises.
CheckResults == {"True", "False"}

\* The seconds wait_for_service sleeps after a check: time.sleep(delay)
\* stands in the except clause, so only after a check that raised.
SleepAfter(res) == IF res = "raised" THEN delay ELSE 0

\* run_initialization returns False and main calls sys.exit(1).
Abort(m) == [m EXCEPT !.pc = "Exited", !.exit = 1]

\* The first statement of run_initialization after the log lines: the wait
\* for the first core service begins.
RunInitialization ==
    /\ initializer.pc = "Start"
    /\ initializer' = [initializer EXCEPT !.pc = "Waiting", !.service = 1,
                                          !.attempt = 0, !.slept = 0]
    /\ UNCHANGED <<nvars, ivars, pvars, deliveries, pulled>>

\* One pass of the loop of wait_for_service: the check; on True the
\* service is marked ready and the function returns True, and
\* run_initialization goes on to the next service or to the first setup
\* step; otherwise the sleep (if any) and, after the last pass, the return
\* of False, on which run_initialization returns False.
WaitCheck(res) ==
    /\ initializer.pc = "Waiting"
    /\ LET m == initializer
           name == core_services[m.service]
       IN  initializer' =
             IF res = "True"
             THEN IF m.service < Len(core_services)
                  THEN [m EXCEPT !.services_ready[name] = TRUE,
                                 !.service = @ + 1, !.attempt = 0, !.slept = 0]
                  ELSE [m EXCEPT !.services_ready[name] = TRUE,
                                 !.attempt = 0, !.slept = 0, !.pc = StepOrder[1]]
             ELSE IF m.attempt + 1 < wait_max_retries
                  THEN [m EXCEPT !.attempt = @ + 1, !.slept = @ + SleepAfter(res)]
                  ELSE Abort([m EXCEPT !.attempt = @ + 1,
                                       !.slept = @ + SleepAfter(res)])
    /\ UNCHANGED <<nvars, ivars, pvars, deliveries, pulled>>

\* Variant in which every failed setup step ends the initialization.
AfterStep_Strict(step, ok) == IF ok THEN "continue" ELSE "abort"

\* What run_initialization does with the result of a setup step: only a
\* failed database schema step makes it return False; a failed Weaviate
\* schema or connector step is logged as a warning, and the result of the
\* health check chooses between two branches that both return True.
AfterStep(step, ok) ==
    IF step = "database_schema" /\ ~ok THEN "abort" ELSE "continue"

\* A setup step of run_initialization and what follows its return.
RunStep(step, ok) ==
    /\ initializer.pc = step
    /\ LET k == CHOOSE n \in 1 .. Len(StepOrder) : StepOrder[n] = step
           m == [initializer EXCEPT
                    !.steps = Append(@, step),
                    !.failed = IF ok THEN @ ELSE @ \cup {step}]
       IN  initializer' =
             IF AfterStep(step, ok) = "abort" THEN Abort(m)
             ELSE IF k < Len(StepOrder) THEN [m EXCEPT !.pc = StepOrder[k + 1]]
             ELSE [m EXCEPT !.pc = "Exited", !.exit = 0]
    /\ UNCHANGED <<nvars, ivars, pvars, deliveries, pulled>>

\* Step 2: initialize_database_schema() returns False when its subprocess
\* call or reading init.sql raises.
InitializeDatabaseSchema(ok) == RunStep("database_schema", ok)

\* Step 3: setup_weaviate_schema().
SetupWeaviateSchema(ok) == RunStep("weaviate_schema", ok)

\* Step 4: setup_debezium_connectors(); its result is that of the
\* registration connector.
SetupDebeziumConnectors(ok) == RunStep("connectors", ok)

\* Step 5: verify_system_health().
VerifySystemHealth(ok) == RunStep("health", ok)

(* --------------------------- specification ---------------------------- *)

Init ==
    /\ status = [r \in Regs |-> "none"]
    /\ email_sent = [r \in Regs |-> FALSE]
    /\ email_sent_at = [r \in Regs |-> 0]
    /\ topic = {}
    /\ pc = [i \in Instances |-> "Idle"]
    /\ cur = [i \in Instances |-> NoMsg]
    /\ outcome = [i \in Instances |-> "None"]
    /\ eff = [i \in Instances |-> NoEffects]
    /\ redelivery = [i \in Instances |-> FALSE]
    /\ notified = {}
    /\ nSent = [r \in Regs |-> 0]
    /\ run = [i \in Instances |-> "Start"]
    /\ env = [i \in Instances |-> NoEnv]
    /\ attempt = [i \in Instances |-> 0]
    /\ slept = [i \in Instances |-> 0]
    /\ consumer = [i \in Instances |-> "None"]
    /\ deliveries = 0
    /\ ipc = "Start"
    /\ iattempts = 0
    /\ icur = NoEnvelope
    /\ iposts = 0
    /\ irequest = EmptyMap
    /\ index = <<>>
    /\ fin = NoCall
    /\ fout = NoResult
    /\ pulled = {}
    /\ initializer = NewInitializer

\* The steps of the store's writers and of the notification instances in I,
\* with the messages of F on the topic besides the row images.
NotifyNext(I, F) ==
    \/ \E r \in Regs : RegisterNew(r)
    \/ \E r \in Regs : Reactivate(r)
    \/ \E r \in Regs : CancelRegistration(r)
    \/ \E i \in I : \E m \in Deliverable(F) : Pull(i, m)
    \/ \E i \in I : \E res \in {"row", "incomplete", "absent"} : Fetch(i, res)
    \/ \E i \in I : \E ok \in BOOLEAN : Send(i, ok)
    \/ \E i \in I : \E dbOk \in BOOLEAN : Mark(i, dbOk)
    \/ \E i \in I : \E user, password \in EnvVals : Main(i, user, password)
    \/ \E i \in I : \E res \in {"ok", "NoBrokersAvailable", "other"} :
            ConnectAttempt(i, res)
    \/ \E i \in I : Interrupt(i)

\* The reference deployment: one notification instance, fed by the row images
\* of the store.
Next == NotifyNext({"n1"}, OtherMessages)

\* Scale-out, and rows of any shape: every instance of the consumer group
\* runs, and the topic also carries rows without a usable email_sent.
NextGeneral == NotifyNext(Instances, OtherMessages \cup SparseRows)

NextIndex ==
    \/ \E ok \in BOOLEAN : IConnect(ok)
    \/ \E e \in IndexMessages : IPull(e)
    \/ \E resp \in {"created", "error", "exception"} : IPost(resp)

\* The notification consumer (one instance) with its store and topic.
Spec == Init /\ [][Next]_vars

\* The notification consumer group with several instances and any rows.
SpecGeneral == Init /\ [][NextGeneral]_vars

\* The index sync consumer with its index.
SpecIndex == Init /\ [][NextIndex]_vars

\* Both consumers side by side.
SpecBoth == Init /\ [][Next \/ NextIndex]_vars

\* The functions that keep no state, called with the inputs above.
NextPure ==
    \/ \E p \in ConvertInputs : ConvertCall(p)
    \/ \E row \in DetailRows : BuildEmail(row)

SpecPure == Init /\ [][NextPure]_vars

\* The run of master_init.py.
NextInit ==
    \/ RunInitialization
    \/ \E res \in CheckResults : WaitCheck(res)
    \/ \E ok \in BOOLEAN : InitializeDatabaseSchema(ok)
    \/ \E ok \in BOOLEAN : SetupWeaviateSchema(ok)
    \/ \E ok \in BOOLEAN : SetupDebeziumConnectors(ok)
    \/ \E ok \in BOOLEAN : VerifySystemHealth(ok)

SpecInit == Init /\ [][NextInit]_vars

\* One instance, registrations that are made and stay, and every message
\* delivered once.
NextOnce ==
    \/ \E r \in Regs : RegisterNew(r)
    \/ \E m \in Deliverable(OtherMessages) : PullOnce("n1", m)
    \/ \E res \in {"row", "incomplete", "absent"} : Fetch("n1", res)
    \/ \E ok \in BOOLEAN : Send("n1", ok)
    \/ \E dbOk \in BOOLEAN : Mark("n1", dbOk)
    \/ \E user, password \in EnvVals : Main("n1", user, password)
    \/ \E res \in {"ok", "NoBrokersAvailable", "other"} : ConnectAttempt("n1", res)
    \/ Interrupt("n1")

\* process_registration_event runs in the one thread of the process: once a
\* delivery has entered it, its fetch, send and flag write are carried out.
HandlerRuns ==
    /\ WF_vars(\E res \in {"row", "incomplete", "absent"} : Fetch("n1", res))
    /\ WF_vars(\E ok \in BOOLEAN : Send("n1", ok))
    /\ WF_vars(\E dbOk \in BOOLEAN : Mark("n1", dbOk))

SpecOnce == Init /\ [][NextOnce]_vars /\ HandlerRuns

(* ------------------------------ claims --------------------------------- *)

\* Every instance is between two deliveries.
Quiescent == \A i \in Instances : pc[i] = "Idle"

\* C1: once the persisted flag of a registration is true, a redelivery of the
\* record whose processing led to the send produces no further notification.
C1_NoResendAfterFlag ==
    \A i \in Instances : redelivery[i] => eff[i].sent = 0

\* C2: a registration whose change record (status registered, email_sent
\* false) was delivered has exactly one notification and its flag is true
\* once processing is over.  Read with the read-model, the sink and the store
\* working: the delivery ended in Sent, its flag write went through, and so
\* did the flag write after every notification the sink accepted.
C2_ExactlyOneNotification ==
    \A i \in Instances : \A r \in Regs :
        (Quiescent /\ cur[i] = RowMsg(r, "registered", "false")
         /\ outcome[i] = "Sent" /\ cur[i] \in notified
         /\ email_sent_at[r] = nSent[r])
            => (nSent[r] = 1 /\ email_sent[r])

\* C3: the consumer goes past the gate only for a record with status
\* registered whose email_sent is not true; every other record with a payload
\* is Filtered-Out without a fetch, a send or a flag write.
C3_GateGuard ==
    \A i \in Instances :
        LET m == cur[i]
            passes == m.kind = "row" /\ m.status = "registered" /\ m.email_sent # "true"
        IN  /\ (pc[i] # "Idle" \/ eff[i] # NoEffects) => passes
            /\ (m.kind = "row" /\ ~passes)
                  => (pc[i] = "Idle" /\ outcome[i] = "FilteredOut" /\ eff[i] = NoEffects)

C3_Witness ==
    \E i \in Instances :
        /\ cur[i] = RowMsg(1, "registered", "true")
        /\ outcome[i] = "FilteredOut"
        /\ email_sent[1]

\* C4: one delivery makes at most one send and at most one flag write; the
\* write is made exactly when the send of that delivery succeeded, and after
\* it; a flag that is set implies a notification the sink accepted.
C4_WriteIffSent ==
    /\ \A i \in Instances :
        /\ eff[i].sends <= 1 /\ eff[i].writes <= 1
        /\ eff[i].writes = 1 => eff[i].sent = 1
        /\ pc[i] = "Marking" => (eff[i].sent = 1 /\ eff[i].writes = 0)
        /\ pc[i] = "Idle" => (eff[i].writes = 1 <=> eff[i].sent = 1)
    /\ \A r \in Regs : email_sent[r] => nSent[r] >= 1

C4_Witness ==
    \E i \in Instances :
        /\ pc[i] = "Idle" /\ outcome[i] = "Sent"
        /\ eff[i].sends = 1 /\ eff[i].writes = 1
        /\ email_sent[cur[i].id] /\ nSent[cur[i].id] = 1

\* A send of instance i that the sink refused.
SendFails(i) ==
    pc[i] = "Sending" /\ eff'[i].sends = eff[i].sends + 1 /\ eff'[i].sent = eff[i].sent

\* C5: a failed send ends the delivery in Send-Failed without an error, no
\* flag write is attempted and the persisted flag keeps its value.
C5_SendFailedLeavesFlag ==
    /\ [](\A i \in Instances :
            (eff[i].sends = 1 /\ eff[i].sent = 0)
                => (pc[i] = "Idle" /\ outcome[i] = "SendFailed" /\ eff[i].writes = 0))
    /\ [][\A i \in Instances :
            SendFails(i) => (email_sent' = email_sent /\ email_sent_at' = email_sent_at
                             /\ pc'[i] = "Idle")]_vars

C5_Witness ==
    \E i \in Instances :
        /\ outcome[i] = "SendFailed" /\ pc[i] = "Idle"
        /\ eff[i].sends = 1 /\ eff[i].sent = 0
        /\ cur[i].id \in Regs /\ ~email_sent[cur[i].id]

\* C6: a fetch that returns nothing ends the delivery in Fetch-Failed: no
\* email is sent and no flag write is made.
C6_FetchFailedTerminal ==
    \A i \in Instances :
        eff[i].fetched = "absent"
            => /\ pc[i] = "Idle" /\ outcome[i] = "FetchFailed"
               /\ eff[i].fetches = 1 /\ eff[i].sends = 0 /\ eff[i].writes = 0

C6_Witness ==
    \E i \in Instances :
        /\ eff[i].fetched = "absent" /\ outcome[i] = "FetchFailed"
        /\ cur[i] = RowMsg(1, "registered", "false")

\* C7: the flag of a registration row is mutated at most once over any
\* sequence of deliveries and redeliveries.
C7_FlagMutatedAtMostOnce ==
    \A r \in Regs : email_sent_at[r] <= 1

\* C8: a message without a usable payload (absent, null or empty) is a no-op
\* for both consumers: no fetch, send or flag write, and no index request.
C8_AbsentPayloadNoOp ==
    /\ \A i \in Instances :
          cur[i] \in {NullMsg, EmptyMsg}
              => (pc[i] = "Idle" /\ outcome[i] = "NoOp" /\ eff[i] = NoEffects)
    /\ (icur.kind = "null" \/ (icur.kind = "envelope"
                               /\ icur.after \in {Absent, JNull, JMap(EmptyMap)}))
          => (ipc # "Posting" /\ iposts = 0)

C8_Witness ==
    /\ \E i \in Instances : cur[i] = EmptyMsg /\ outcome[i] = "NoOp"
    /\ icur = Envelope(JMap(EmptyMap)) /\ ipc = "Idle" /\ index = <<>>

\* C9: delivering an event record with the same source id twice leaves one
\* document for that source id in the index.
C9_OneDocumentPerSourceId ==
    \A a, b \in DOMAIN index :
        ("postgres_id" \in DOMAIN index[a] /\ "postgres_id" \in DOMAIN index[b]
         /\ index[a]["postgres_id"] = index[b]["postgres_id"]) => a = b

\* C10: for a payload that carries id, the document sent to the index has no
\* id property and carries that id as postgres_id.
C10_SourceIdPreserved ==
    (iposts = 1 /\ "id" \in DOMAIN icur.after.v)
        => /\ "id" \notin DOMAIN irequest
           /\ "postgres_id" \in DOMAIN irequest
           /\ irequest["postgres_id"] = icur.after.v["id"]

\* A delivery of instance i that ended in a failure: a value without .get or
\* a read-model row without a column (Error), a fetch that returned nothing,
\* a send the sink refused, a flag write that failed.
FailedDelivery(i) ==
    /\ pc[i] = "Idle"
    /\ \/ outcome[i] \in {"Error", "FetchFailed", "SendFailed"}
       \/ outcome[i] = "Sent" /\ eff[i].written = 0

\* A step of instance i that ends a delivery in a failure.
FailureStep(i) ==
    /\ run[i] = "Streaming"
    /\ deliveries' = deliveries + 1 \/ pc[i] # "Idle"
    /\ cur'[i].kind # "garbled"
    /\ pc'[i] = "Idle"
    /\ \/ outcome'[i] \in {"Error", "FetchFailed", "SendFailed"}
       \/ outcome'[i] = "Sent" /\ eff'[i].written = 0

\* C11: a failure while one record is processed (a value that is no map, a
\* missing read-model field, a failed fetch, send or flag write) does not
\* end the loop: the failing step leaves the instance streaming at its pull,
\* and only an interrupt takes it from there.
C11_FailureKeepsLoop ==
    /\ [](\A i \in Instances :
            FailedDelivery(i) => (run[i] \in {"Streaming", "Closed"}
                                  /\ consumer[i] \in {"open", "closed"}))
    /\ [][\A i \in Instances :
            FailureStep(i) => (run'[i] = "Streaming" /\ consumer'[i] = "open")]_vars

C11_Witness ==
    \E i \in Instances :
        /\ outcome[i] = "Error" /\ eff[i].fetched = "incomplete"
        /\ pc[i] = "Idle" /\ run[i] = "Streaming" /\ deliveries < MaxDeliveries

\* C12: no failure while the index consumer handles one message (a value
\* that is null or no map, a conversion error, a failed request) ends its
\* loop.
C12_IndexLoopSurvives ==
    icur.kind \in {"null", "scalar", "envelope"} => ipc # "Crashed"

\* C13: a message whose bytes cannot be decoded or parsed is skipped: the
\* consumer that met it keeps its subscription and goes on.
C13_UnreadableSkipped ==
    /\ \A i \in Instances :
          cur[i].kind = "garbled" => (run[i] # "Crashed" /\ consumer[i] # "closed")
    /\ icur.kind = "garbled" => ipc # "Crashed"

\* C14: connect_kafka makes at most max_retries attempts and sleeps
\* retry_delay seconds between two consecutive ones, never after the last;
\* the startup failure comes with the failure of attempt max_retries; the
\* subscription exists exactly while the instance streams, and no record is
\* pulled without one.
C14_BoundedConnect ==
    \A i \in Instances :
        /\ attempt[i] <= max_retries - 1
        /\ run[i] \in {"Connecting", "StartupFailed", "StartupError"}
              => slept[i] = retry_delay * attempt[i]
        /\ run[i] = "StartupFailed" => attempt[i] = max_retries - 1
        /\ consumer[i] = "open" <=> run[i] = "Streaming"
        /\ consumer[i] = "None" => (cur[i] = NoMsg /\ pc[i] = "Idle")

C14_Witness ==
    \E i \in Instances :
        /\ run[i] = "StartupFailed" /\ consumer[i] = "None"
        /\ attempt[i] = max_retries - 1
        /\ slept[i] = retry_delay * (max_retries - 1)

\* C15: when the broker is unavailable at startup the index consumer ends,
\* after its retries, with a non-zero exit status and without having
\* consumed a message.
C15_IndexStartupFailure ==
    ipc = "Returned"
        => (ExitStatus(ipc) # 0 /\ iattempts > 1 /\ icur = NoEnvelope)

\* C16: on a shutdown signal the record in flight runs to its terminal state
\* before the subscription is closed; stated for the step the claim singles
\* out: once the subscription is closed after an interrupt, a send that
\* succeeded has had its flag write.
C16_InFlightFinishes ==
    \A i \in Instances :
        (consumer[i] = "closed" /\ run[i] = "Closed" /\ eff[i].sent = 1)
            => (pc[i] = "Idle" /\ eff[i].writes = 1)

\* C17: with SMTP_USER or SMTP_PASSWORD missing or empty the process aborts
\* at startup: no consumer, no connection attempt, no record processed.
C17_MissingCredentialAborts ==
    \A i \in Instances :
        (\E var \in {"SMTP_USER", "SMTP_PASSWORD"} : env[i][var] \in {"MISSING", ""})
            => /\ run[i] = "Aborted" /\ consumer[i] = "None"
               /\ attempt[i] = 0 /\ slept[i] = 0
               /\ cur[i] = NoMsg /\ eff[i] = NoEffects /\ pc[i] = "Idle"

C17_Witness ==
    \E i \in Instances :
        /\ env[i] = [SMTP_USER |-> "set", SMTP_PASSWORD |-> ""]
        /\ run[i] = "Aborted"

\* The fields the temporal converter knows.
TemporalFields == {"event_date", "event_time", "created_at", "updated_at"}

\* C18: the converter never raises: every envelope with a payload goes on to
\* the request.
C18_ConverterNeverRaises ==
    (icur.kind = "envelope" /\ HasAfter(icur))
        => (ipc = "Posting" \/ (ipc = "Idle" /\ iposts = 1))

\* C19: a temporal field whose value is not an integer (null, string,
\* boolean) comes out of the converter unchanged, and converting twice
\* gives what converting once gives.
C19_NonIntegerUnchanged ==
    (icur.kind = "envelope" /\ iposts = 1)
        => LET p == icur.after.v IN
           /\ \A f \in TemporalFields \cap DOMAIN p :
                 p[f].t # "int" => ConvertDates(p)[f] = p[f]
           /\ ConvertDates(ConvertDates(p)) = ConvertDates(p)

\* C20 as stated: every payload field other than the temporal fields and
\* id is in the document with its name and value.
C20_UnknownFieldsKept ==
    (icur.kind = "envelope" /\ iposts = 1)
        => \A k \in DOMAIN icur.after.v \ (TemporalFields \cup {"id"}) :
              k \in DOMAIN irequest /\ irequest[k] = icur.after.v[k]

\* C20, amended: every payload field other than the temporal fields, id and
\* postgres_id is in the document with its name and value.
C20_OtherFieldsKept ==
    (icur.kind = "envelope" /\ iposts = 1)
        => \A k \in DOMAIN icur.after.v \ (TemporalFields \cup {"id", "postgres_id"}) :
              k \in DOMAIN irequest /\ irequest[k] = icur.after.v[k]

C20_Witness ==
    /\ iposts = 1 /\ Len(index) = 1
    /\ icur.after.v["title"] = JStr("b")
    /\ index[1]["title"] = JStr("b")

(* ------------- the calendar and the clock, counted directly ----------- *)

IsLeap(y) == (y % 4 = 0 /\ y % 100 # 0) \/ y % 400 = 0

DaysInMonth(y, m) ==
    IF m = 2 THEN (IF IsLeap(y) THEN 29 ELSE 28)
    ELSE IF m \in {4, 6, 9, 11} THEN 30 ELSE 31

\* The days from 1970-01-01 to the first of January of year y.
DaysToYear(y) ==
    365 * (y - 1) + (y - 1) \div 4 - (y - 1) \div 100 + (y - 1) \div 400 - 719162

RECURSIVE DaysToMonth(_, _)
DaysToMonth(y, m) == IF m = 1 THEN 0 ELSE DaysToMonth(y, m - 1) + DaysInMonth(y, m - 1)

\* The dates of the years 1..9999 that lie `day` days after 1970-01-01.
Calendar(day) ==
    LET a == 1970 + day \div 365
        b == 1970 + day \div 366
        lo == (IF a < b THEN a ELSE b) - 1
        hi == (IF a < b THEN b ELSE a) + 1
    IN  {c \in [year : (lo .. hi) \cap (1 .. 9999), month : 1 .. 12, day : 1 .. 31] :
            /\ c.day <= DaysInMonth(c.year, c.month)
            /\ DaysToYear(c.year) + DaysToMonth(c.year, c.month) + c.day - 1 = day}

\* n in two digits, for n in 0..99.
Digits2(n) == ToString(n \div 10) \o ToString(n % 10)

\* A year in four digits; a year below 1000 also as the C library renders
\* it where it does not pad.
YearTexts(y) ==
    {ToString(y),
     (IF y < 10 THEN "000" ELSE IF y < 100 THEN "00" ELSE IF y < 1000 THEN "0" ELSE "")
        \o ToString(y)}

\* The texts YYYY-MM-DD of the dates that lie `day` days after 1970-01-01.
DateTexts(day) ==
    {yt \o "-" \o Digits2(c.month) \o "-" \o Digits2(c.day) :
        yt \in UNION {YearTexts(c.year) : c \in Calendar(day)}, c \in Calendar(day)}

\* HH:MM:SS of second `tod` of a day.
ClockTexts(tod) ==
    {Digits2(hh) \o ":" \o Digits2(mm) \o ":" \o Digits2(ss) :
        hh \in {h \in 0 .. 23 : h = tod \div 3600},
        mm \in {m \in 0 .. 59 : m = (tod % 3600) \div 60},
        ss \in {x \in 0 .. 59 : tod = (tod \div 3600) * 3600 + ((tod % 3600) \div 60) * 60 + x}}

\* The last call was convert_dates on a row whose field holds a Python int.
Converted(field) ==
    /\ fin.f = "convert_dates"
    /\ field \in DOMAIN fin.arg
    /\ IsInt(fin.arg[field])

\* C21: an integer event_time ms comes out as HH:MM:SS with the hours, the
\* minutes of the hour and the seconds of the minute of floor(ms / 1000),
\* each in at least two digits; for 0 <= ms < 86400000 it is a time of day
\* whose seconds add up to floor(ms / 1000); 34200000 gives 09:30:00; and
\* no integer event_time makes the converter raise.
C21_TimeOfDay ==
    (Converted("event_time") /\ fin.arg["event_time"].t # "wide")
        => LET ms == IntOf(fin.arg["event_time"])
               s == ms \div 1000
               hh == s \div 3600
           IN  IF fout.raised
               THEN ConvertRaises(Pop(fin.arg, "event_time"))
               ELSE /\ fout.value["event_time"].t = "str"
                    /\ \E mm \in 0 .. 59, ss \in 0 .. 59 :
                          /\ hh * 3600 + mm * 60 + ss = s
                          /\ fout.value["event_time"].v =
                                (IF hh \in 0 .. 99 THEN Digits2(hh) ELSE ToString(hh))
                                    \o ":" \o Digits2(mm) \o ":" \o Digits2(ss)
                    /\ (0 <= ms /\ ms < DayMs)
                          => /\ hh \in 0 .. 23
                             /\ fout.value["event_time"].v \in ClockTexts(s)
                    /\ ms = 34200000 => fout.value["event_time"].v = "09:30:00"

C21_Witness ==
    /\ fin = [f |-> "convert_dates", arg |-> [event_time |-> JInt(34200000)]]
    /\ fout = [raised |-> FALSE, value |-> [event_time |-> JStr("09:30:00")]]

\* C22: for every integer event_date d the converter renders the calendar
\* date d days after 1970-01-01 as YYYY-MM-DD; 0 gives 1970-01-01 and 20000
\* gives 2024-10-04.
C22_CalendarDate ==
    Converted("event_date")
        => /\ ~fout.raised
           /\ fout.value["event_date"].t = "str"
           /\ fout.value["event_date"].v \in DateTexts(IntOf(fin.arg["event_date"]))
           /\ IntOf(fin.arg["event_date"]) = 0
                 => fout.value["event_date"].v = "1970-01-01"
           /\ IntOf(fin.arg["event_date"]) = 20000
                 => fout.value["event_date"].v = "2024-10-04"

\* C23: for every integer created_at / updated_at ms the converter renders
\* YYYY-MM-DD HH:MM:SS of the instant floor(ms / 1000) seconds after the
\* epoch, in the process's local time for both fields.
C23_EpochInstant ==
    \A field \in {"created_at", "updated_at"} :
        Converted(field)
            => /\ ~fout.raised
               /\ fout.value[field].t = "str"
               /\ LET w == WideOf(fin.arg[field])
                      secs == w.ms \div 1000 + LocalOffset
                  IN  fout.value[field].v \in
                          {d \o " " \o c : d \in DateTexts(w.days + secs \div 86400),
                                           c \in ClockTexts(secs % 86400)}

\* The last call built the email for a fetched row.
Mailed == fin.f = "email"

\* C26: the date and time line reads "Date and time to be announced"
\* exactly when the date and the time are both missing; with both present
\* it reads "<date> at <time>"; with one missing the present one is shown
\* and "TBD" stands for the other.
C26_DateTimeText ==
    Mailed
        => LET row == fin.arg
               noDate == row.event_date = JNull
               noTime == row.event_time = JNull
               text == fout.value.when
           IN  /\ (text = "Date and time to be announced") <=> (noDate /\ noTime)
               /\ (~noDate /\ ~noTime)
                     => text = row.event_date.v \o " at " \o row.event_time.v
               /\ (~noDate /\ noTime) => text = row.event_date.v \o " at TBD"
               /\ (noDate /\ ~noTime) => text = "TBD at " \o row.event_time.v

\* C27: the message goes to the email of the fetched row, and greets with
\* its full name when that is not empty and with its username otherwise.
C27_RecipientAndName ==
    Mailed
        => /\ fout.value.to = fin.arg.email
           /\ fin.arg.full_name \in {JNull, JStr("")}
                 => fout.value.name = fin.arg.username
           /\ fin.arg.full_name \notin {JNull, JStr("")}
                 => fout.value.name = fin.arg.full_name

C27_Witness ==
    /\ Mailed
    /\ fin.arg.full_name = JStr("")
    /\ fout.value.name = JStr("ann")
    /\ fout.value.to = JStr("ann@example.org")

\* C24: within one delivery an instance sends at most once, so two
\* notifications for a registration take two deliveries; two instances with
\* overlapping deliveries of one actionable record can both be past the
\* gate, each with its notification sent, before either writes the flag.
C24_OneSendPerDelivery ==
    /\ \A i \in Instances : eff[i].sends <= 1 /\ eff[i].sent <= eff[i].sends
    /\ \A r \in Regs : nSent[r] <= deliveries

C24_Witness ==
    \E r \in Regs :
        /\ cur["n1"] = Image(r, "registered", FALSE)
        /\ cur["n2"] = Image(r, "registered", FALSE)
        /\ pc["n1"] = "Marking" /\ pc["n2"] = "Marking"
        /\ eff["n1"].sent = 1 /\ eff["n2"].sent = 1
        /\ nSent[r] = 2
        /\ ~email_sent[r] /\ email_sent_at[r] = 0

\* C25: for every message with a payload the index consumer issues exactly
\* one request: never more than one, and once the message is dealt with
\* there has been one and the consumer is back in its loop.
C25_FailedUpsertDropped ==
    (icur.kind = "envelope" /\ HasAfter(icur))
        => /\ iposts <= 1
           /\ ipc \in {"Posting", "Idle"}
           /\ ipc = "Idle" => iposts = 1

\* A step in which instance i takes a message from its subscription.
PullStep(i) ==
    /\ deliveries' = deliveries + 1
    /\ <<cur[i], eff[i], outcome[i], pc[i], run[i]>>'
          # <<cur[i], eff[i], outcome[i], pc[i], run[i]>>

\* C28: an instance takes the next record only when the one before has
\* reached its end (no record yet, or an outcome, for Sent with the flag
\* write attempted), and so does the index consumer.
C28_OneAtATime ==
    [][/\ \A i \in Instances :
             PullStep(i)
                 => /\ pc[i] = "Idle"
                    /\ outcome[i] \in Terminal \cup {"None"}
                    /\ outcome[i] = "Sent" => eff[i].writes = 1
       /\ (deliveries' = deliveries + 1 /\ <<icur, ipc, iposts>>' # <<icur, ipc, iposts>>)
             => ipc = "Idle"]_vars

C28_Witness ==
    /\ deliveries = 2
    /\ pc["n1"] = "Fetching"
    /\ eff["n1"] = NoEffects

C30_FetchPerDelivery ==
    \A i \in Instances :
        /\ eff[i].fetches <= 1
        /\ pc[i] = "Fetching" => (eff[i].fetches = 0 /\ eff[i].fetched = "none")
        /\ pc[i] \in {"Sending", "Marking"}
              => (eff[i].fetches = 1 /\ eff[i].fetched = "row")
        /\ eff[i].sends > 0 => (eff[i].fetches = 1 /\ eff[i].fetched = "row")
        /\ outcome[i] \in {"FetchFailed", "SendFailed", "Sent"} => eff[i].fetches = 1
        /\ outcome[i] \in {"NoOp", "FilteredOut", "Unread"} => eff[i].fetches = 0

C30_Witness ==
    \E i \in Instances :
        /\ deliveries = 2
        /\ redelivery[i]
        /\ pc[i] = "Sending"
        /\ eff[i].fetches = 1 /\ eff[i].fetched = "row"

\* The last delivery of instance i was a row, and it went past the gate.
Decided(i) == cur[i].kind = "row"
Passed(i) ==
    pc[i] # "Idle" \/ outcome[i] \in {"FetchFailed", "SendFailed", "Sent", "Error"}

\* C31: the gate decides from the payload of the delivered record alone:
\* two deliveries with equal payloads are both let past the gate or both
\* held, whatever the persisted flag was when each was taken.
C31_GateFromPayload ==
    \A i, j \in Instances :
        (Decided(i) /\ Decided(j) /\ cur[i] = cur[j]) => (Passed(i) <=> Passed(j))

\* Two deliveries of one record, the first taken with the persisted flag
\* false (it led to the only flag write), the second with the flag true,
\* both past the gate.
C31_Witness ==
    \E r \in Regs :
        /\ cur["n1"] = Image(r, "registered", FALSE)
        /\ cur["n2"] = cur["n1"]
        /\ ~redelivery["n1"] /\ outcome["n1"] = "Sent" /\ eff["n1"].written = 1
        /\ email_sent[r] /\ email_sent_at[r] = 1
        /\ redelivery["n2"] /\ pc["n2"] = "Fetching"

\* C33: no step sets a persisted flag that is true back to false.
C33_FlagMonotonic ==
    [][\A r \in Regs : email_sent[r] => email_sent'[r]]_vars

\* A flagged registration that was cancelled and registered again.
C33_Witness ==
    \E r \in Regs :
        /\ email_sent[r] /\ status[r] = "registered"
        /\ Image(r, "cancelled", TRUE) \in topic

\* C34: cancelling or re-registering a registration whose flag is true
\* leaves the flag true and emits a record that carries it, and every
\* delivery of such a record is Filtered-Out without fetch, send or write.
C34_ReactivationNotNotified ==
    /\ [](\A i \in Instances : \A r \in Regs :
            cur[i] \in {Image(r, "cancelled", TRUE), Image(r, "registered", TRUE)}
                => (pc[i] = "Idle" /\ outcome[i] = "FilteredOut"
                    /\ eff[i] = NoEffects))
    /\ [][\A r \in Regs :
            (email_sent[r] /\ status'[r] # status[r])
                => /\ email_sent'[r]
                   /\ Image(r, status'[r], TRUE) \in topic'
                   /\ topic' \subseteq topic \cup {Image(r, status'[r], TRUE)}
                   /\ Gate(Image(r, status'[r], TRUE)) = "FilteredOut"]_vars

\* The record of the reactivation of a notified registration, delivered.
C34_Witness ==
    \E i \in Instances : \E r \in Regs :
        /\ nSent[r] = 1 /\ email_sent[r] /\ status[r] = "registered"
        /\ Image(r, "cancelled", TRUE) \in topic
        /\ cur[i] = Image(r, "registered", TRUE)
        /\ outcome[i] = "FilteredOut"

\* C32: with every change record delivered once and a registration that
\* is made and stays, the record of the consumer's own flag write (status
\* registered, email_sent true) is Filtered-Out without fetch, send or
\* write, a registration has at most one notification, and from some point
\* on no delivery is in progress.
C32_NoFeedback ==
    /\ [](\A r \in Regs :
            /\ nSent[r] <= 1
            /\ cur["n1"] = Image(r, "registered", TRUE)
                  => (pc["n1"] = "Idle" /\ outcome["n1"] = "FilteredOut"
                      /\ eff["n1"] = NoEffects))
    /\ <>[](pc["n1"] = "Idle" \/ run["n1"] # "Streaming")

\* The record of the flag write, delivered after the notification.
C32_Witness ==
    \E r \in Regs :
        /\ nSent[r] = 1 /\ email_sent[r]
        /\ pulled = {Image(r, "registered", FALSE), Image(r, "registered", TRUE)}
        /\ cur["n1"] = Image(r, "registered", TRUE)
        /\ outcome["n1"] = "FilteredOut"

\* The core services are all marked ready.
CoreReady ==
    \A n \in 1 .. Len(core_services) : initializer.services_ready[core_services[n]]

\* C35: the services become ready in the order postgres, weaviate,
\* debezium; the setup steps start in the order database schema, Weaviate
\* schema, connectors, health check, none before all three services are
\* ready; the run ends with exit status 1 exactly when a service did not
\* become ready or the database schema step failed, and then no later step
\* has run; otherwise it ends with status 0 after all four steps, whichever
\* of the other steps failed.
C35_FixedOrder ==
    LET m == initializer
    IN  /\ \A n \in 2 .. Len(core_services) :
              m.services_ready[core_services[n]]
                  => m.services_ready[core_services[n - 1]]
        /\ Len(m.steps) <= Len(StepOrder)
        /\ \A n \in 1 .. Len(m.steps) : m.steps[n] = StepOrder[n]
        /\ m.steps # <<>> => CoreReady
        /\ m.pc \in {"Start", "Waiting"} => m.steps = <<>>
        /\ m.exit = 1 <=> (m.pc = "Exited"
                           /\ (~CoreReady \/ "database_schema" \in m.failed))
        /\ (m.exit = 1 /\ ~CoreReady) => m.steps = <<>>
        /\ (m.exit = 1 /\ CoreReady) => m.steps = <<"database_schema">>
        /\ m.exit = 0 <=> (m.pc = "Exited" /\ CoreReady
                           /\ "database_schema" \notin m.failed)
        /\ m.exit = 0 => m.steps = StepOrder

\* A run that ended with status 0 although the Weaviate schema step, the
\* connector step and the health check failed.
C35_Witness ==
    /\ initializer.exit = 0
    /\ initializer.failed = {"weaviate_schema", "connectors", "health"}

\* C36: wait_for_service makes at most max_retries checks, has slept
\* `delay` seconds after every unsuccessful check, marks the service ready
\* only at a successful check, and returns False after max_retries
\* unsuccessful checks.
C36_WaitForService ==
    LET m == initializer
    IN  /\ m.attempt <= wait_max_retries
        /\ m.pc = "Waiting"
              => /\ m.attempt < wait_max_retries
                 /\ ~m.services_ready[core_services[m.service]]
                 /\ m.slept = delay * m.attempt
        /\ (m.pc = "Exited" /\ ~CoreReady)
              => (m.attempt = wait_max_retries /\ m.slept = delay * m.attempt)

=============================================================================
